---- MODULE Spec2Model ----
(***************************************************************************)
(* A model of src/src/fd3d.rs: the Graph aggregate, its insertion          *)
(* operations and the Node / Edge records and adapters they consume.       *)
(*                                                                         *)
(* Strings are TLA+ strings and the id formatters really concatenate.      *)
(* A HashMap is a function whose DOMAIN is its key set.                    *)
(***************************************************************************)
EXTENDS Integers, Sequences, FiniteSets, TLC

\* nodes, edges: the two fields of the one Graph.
\* calls: the public operations called on it so far, with their arguments,
\*        their Result and the insertions each attempted.
\* pre:   the Graph as it was before the most recent call.
\* trace: the Graph after each insertion the most recent call attempted.
VARIABLES nodes, edges, calls, pre, trace

vars == <<nodes, edges, calls, pre, trace>>

\* Number of public operations a behaviour performs on one Graph.
MaxOps == 2

-----------------------------------------------------------------------------
(* HashMap<String, _>                                                      *)

EmptyMap == [k \in {} |-> k]

\* HashMap::insert: add the key or overwrite the value stored under it.
MapInsert(m, k, v) == [j \in (DOMAIN m) \cup {k} |-> IF j = k THEN v ELSE m[j]]

\* Faulty variant: self.<field>.insert(collection, <map of just id>), which
\* replaces a bucket that already exists.
EntryInsert_fresh_bucket(m, collection, id, json) ==
    MapInsert(m, collection, MapInsert(EmptyMap, id, json))

\* self.<field>.entry(collection).or_insert(HashMap::new()).insert(id, json)
EntryInsert(m, collection, id, json) ==
    LET bucket == IF collection \in DOMAIN m THEN m[collection] ELSE EmptyMap
    IN  MapInsert(m, collection, MapInsert(bucket, id, json))

-----------------------------------------------------------------------------
(* The generic parameters, instantiated.  NV and EV are enums with a       *)
(* Display implementation; PK is an integer; T is a payload whose          *)
(* Serialize implementation may fail.                                      *)

EdgeVariants == {"Knows", "Cites"}

\* <NV as fmt::Display> / <EV as fmt::Display>: variant.to_string(), "{}"
Display(v) ==
    CASE v = "Person" -> "person"
      [] v = "Doc"    -> "doc"
      [] v = "Knows"  -> "knows"
      [] v = "Cites"  -> "cites"

Digits == <<"0", "1", "2", "3", "4", "5", "6", "7", "8", "9">>

\* <PK as fmt::Debug> for an integer key: "{:?}"
RECURSIVE Debug(_)
Debug(n) == IF n < 10 THEN Digits[n + 1]
            ELSE Debug(n \div 10) \o Digits[(n % 10) + 1]

\* A payload whose Serialize implementation returns an error.
Unserializable == "unserializable"

EdgeProps == {"e1", "e2", Unserializable}

\* The value of Err(serde_json::Error)
SerdeError == [error |-> "serde_json::Error"]

-----------------------------------------------------------------------------
(* Node adapters: implementers of ToNode                                   *)

alice   == [variant |-> "Person", pk |-> 1, name |-> "Alice",  props |-> "p1"]
bob     == [variant |-> "Person", pk |-> 2, name |-> "Bob",    props |-> "p1"]
report  == [variant |-> "Doc",    pk |-> 1, name |-> "Report", props |-> "p2"]
scratch == [variant |-> "Doc",    pk |-> 2, name |-> "Scratch",
            props |-> Unserializable]

Adapters == {alice, bob, report, scratch}

node_variant(n) == n.variant
node_pk(n)      == n.pk
node_name(n)    == n.name
node_props(n)   == n.props

\* format!("{}|{:?}", &self.node_variant(), &self.node_pk())
node_id(n) == Display(node_variant(n)) \o "|" \o Debug(node_pk(n))

to_node(n) ==
    [variant    |-> node_variant(n),
     variant_pk |-> node_pk(n),
     id         |-> node_id(n),
     name       |-> node_name(n),
     props      |-> node_props(n)]

\* Node has public fields: a caller of add_node may pair any id with any
\* variant.
NodeIds == {node_id(n) : n \in Adapters}
Nodes   == {[to_node(n) EXCEPT !.id = i] : n \in Adapters, i \in NodeIds}

-----------------------------------------------------------------------------
(* Serialization                                                           *)

\* Node::to_node_json: serde_json::to_value(&self)
to_node_json(node) ==
    IF node.props = Unserializable
    THEN [ok |-> FALSE, json |-> SerdeError]
    ELSE [ok |-> TRUE,
          json |-> [variant    |-> node.variant,
                    variant_pk |-> node.variant_pk,
                    id         |-> node.id,
                    name       |-> node.name,
                    props      |-> node.props]]

\* Edge::to_edge_json: serde_json::to_value(&self)
to_edge_json(edge) ==
    IF edge.props = Unserializable
    THEN [ok |-> FALSE, json |-> SerdeError]
    ELSE [ok |-> TRUE,
          json |-> [variant    |-> edge.variant,
                    variant_pk |-> edge.variant_pk,
                    id         |-> edge.id,
                    source     |-> edge.source,
                    target     |-> edge.target,
                    props      |-> edge.props]]

-----------------------------------------------------------------------------
(* Graph.  g is the record [nodes, edges] of the two fields.               *)

Graph_new == [nodes |-> EmptyMap, edges |-> EmptyMap]

\* Faulty variant: the bucket is keyed by the serialized variant, not by
\* variant.to_string().
add_node_serialized_bucket(g, node) ==
    LET r == to_node_json(node)
    IN  IF ~r.ok
        THEN [ok |-> FALSE, g |-> g]
        ELSE [ok |-> TRUE,
              g  |-> [g EXCEPT !.nodes =
                         EntryInsert(g.nodes, node.variant, node.id, r.json)]]

\* Faulty variant: .entry(id).or_insert(json), which keeps a value already
\* stored under the id.
add_node_keep_first(g, node) ==
    LET r == to_node_json(node)
        c == Display(node.variant)
    IN  IF ~r.ok
        THEN [ok |-> FALSE, g |-> g]
        ELSE [ok |-> TRUE,
              g  |-> IF c \in DOMAIN g.nodes /\ node.id \in DOMAIN g.nodes[c]
                     THEN g
                     ELSE [g EXCEPT !.nodes =
                              EntryInsert(g.nodes, c, node.id, r.json)]]

\* Faulty variant: the bucket is created before the node is serialized.
add_node_bucket_first(g, node) ==
    LET r == to_node_json(node)
        c == Display(node.variant)
        b == IF c \in DOMAIN g.nodes THEN g.nodes[c] ELSE EmptyMap
    IN  IF ~r.ok
        THEN [ok |-> FALSE, g |-> [g EXCEPT !.nodes = MapInsert(g.nodes, c, b)]]
        ELSE [ok |-> TRUE,
              g  |-> [g EXCEPT !.nodes =
                         EntryInsert(g.nodes, c, node.id, r.json)]]

add_node(g, node) ==
    LET r == to_node_json(node)
    IN  IF ~r.ok
        THEN [ok |-> FALSE, g |-> g]
        ELSE [ok |-> TRUE,
              g  |-> [g EXCEPT !.nodes =
                         EntryInsert(g.nodes, Display(node.variant),
                                     node.id, r.json)]]

add_node_from(g, n) == add_node(g, to_node(n))

add_edge(g, edge) ==
    LET r == to_edge_json(edge)
    IN  IF ~r.ok
        THEN [ok |-> FALSE, g |-> g]
        ELSE [ok |-> TRUE,
              g  |-> [g EXCEPT !.edges =
                         EntryInsert(g.edges, Display(edge.variant),
                                     edge.id, r.json)]]

\* Faulty variant: source and target exchanged.
make_edge_swapped(n_source, n_target, edge_variant, edge_props) ==
    [variant    |-> edge_variant,
     variant_pk |-> <<node_pk(n_source), node_pk(n_target)>>,
     id         |-> Debug(node_pk(n_source)) \o "|" \o Display(edge_variant)
                      \o "|" \o Debug(node_pk(n_target)),
     source     |-> node_id(n_target),
     target     |-> node_id(n_source),
     props      |-> edge_props]

\* Faulty variant: the id also carries the props, so it is unique per edge.
make_edge_props_id(n_source, n_target, edge_variant, edge_props) ==
    [variant    |-> edge_variant,
     variant_pk |-> <<node_pk(n_source), node_pk(n_target)>>,
     id         |-> Debug(node_pk(n_source)) \o "|" \o Display(edge_variant)
                      \o "|" \o Debug(node_pk(n_target)) \o "|" \o edge_props,
     source     |-> node_id(n_source),
     target     |-> node_id(n_target),
     props      |-> edge_props]

\* The Edge value source_edge_target builds (lines 253-261).
make_edge(n_source, n_target, edge_variant, edge_props) ==
    [variant    |-> edge_variant,
     variant_pk |-> <<node_pk(n_source), node_pk(n_target)>>,
     id         |-> Debug(node_pk(n_source)) \o "|" \o Display(edge_variant)
                      \o "|" \o Debug(node_pk(n_target)),
     source     |-> node_id(n_source),
     target     |-> node_id(n_target),
     props      |-> edge_props]

\* One insertion: which record was handed to add_node or add_edge, whether
\* that returned Ok, and the Graph it left.
Step(kind, rec, r) ==
    [kind |-> kind, rec |-> rec, ok |-> r.ok, post |-> r.g]

\* Faulty variant: both nodes are inserted before the edge.
source_edge_target_nodes_first(g, n_source, n_target, edge_variant, edge_props) ==
    LET source == to_node(n_source)
        target == to_node(n_target)
        edge   == make_edge(n_source, n_target, edge_variant, edge_props)
        r1 == add_node(g, source)
        s1 == Step("node", source, r1)
        r2 == add_node(r1.g, target)
        s2 == Step("node", target, r2)
        r3 == add_edge(r2.g, edge)
        s3 == Step("edge", edge, r3)
    IN  IF ~r1.ok THEN [ok |-> FALSE, g |-> r1.g, steps |-> <<s1>>]
        ELSE IF ~r2.ok THEN [ok |-> FALSE, g |-> r2.g, steps |-> <<s1, s2>>]
        ELSE IF ~r3.ok THEN [ok |-> FALSE, g |-> r3.g, steps |-> <<s1, s2, s3>>]
        ELSE [ok |-> TRUE, g |-> r3.g, steps |-> <<s1, s2, s3>>]

\* source_edge_target: the three insertions chained by `?`.
source_edge_target(g, n_source, n_target, edge_variant, edge_props) ==
    LET source == to_node(n_source)
        target == to_node(n_target)
        edge   == make_edge(n_source, n_target, edge_variant, edge_props)
        r1 == add_node(g, source)
        s1 == Step("node", source, r1)
        r2 == add_edge(r1.g, edge)
        s2 == Step("edge", edge, r2)
        r3 == add_node(r2.g, target)
        s3 == Step("node", target, r3)
    IN  IF ~r1.ok THEN [ok |-> FALSE, g |-> r1.g, steps |-> <<s1>>]
        ELSE IF ~r2.ok THEN [ok |-> FALSE, g |-> r2.g, steps |-> <<s1, s2>>]
        ELSE IF ~r3.ok THEN [ok |-> FALSE, g |-> r3.g, steps |-> <<s1, s2, s3>>]
        ELSE [ok |-> TRUE, g |-> r3.g, steps |-> <<s1, s2, s3>>]

-----------------------------------------------------------------------------
(* The state machine: one Graph and the calls made on it so far.           *)

G == [nodes |-> nodes, edges |-> edges]

\* The record kept of a call: r is what the operation returned, steps the
\* insertions it attempted.
Call(op, args, r, steps) ==
    [op    |-> op,
     args  |-> args,
     ok    |-> r.ok,
     steps |-> [j \in DOMAIN steps |->
                  [kind |-> steps[j].kind, rec |-> steps[j].rec,
                   ok |-> steps[j].ok]]]

\* The effect of a call on the state: the Graph it leaves, the Graph it
\* found, the Graph after each of its insertions.
Effect(call, r, steps) ==
    /\ nodes' = r.g.nodes
    /\ edges' = r.g.edges
    /\ calls' = Append(calls, call)
    /\ pre'   = G
    /\ trace' = [j \in DOMAIN steps |-> steps[j].post]

Init ==
    /\ nodes = Graph_new.nodes
    /\ edges = Graph_new.edges
    /\ calls = <<>>
    /\ pre   = Graph_new
    /\ trace = <<>>

AddNode ==
    /\ Len(calls) < MaxOps
    /\ \E node \in Nodes :
         LET r     == add_node(G, node)
             steps == <<Step("node", node, r)>>
         IN  Effect(Call("add_node", <<node>>, r, steps), r, steps)

AddNodeFrom ==
    /\ Len(calls) < MaxOps
    /\ \E n \in Adapters :
         LET r     == add_node_from(G, n)
             steps == <<Step("node", to_node(n), r)>>
         IN  Effect(Call("add_node_from", <<n>>, r, steps), r, steps)

SourceEdgeTarget ==
    /\ Len(calls) < MaxOps
    /\ \E n_source \in Adapters, n_target \in Adapters,
          edge_variant \in EdgeVariants, edge_props \in EdgeProps :
         LET r == source_edge_target(G, n_source, n_target,
                                     edge_variant, edge_props)
         IN  Effect(Call("source_edge_target",
                         <<n_source, n_target, edge_variant, edge_props>>,
                         r, r.steps),
                    r, r.steps)

Next == AddNode \/ AddNodeFrom \/ SourceEdgeTarget

Spec == Init /\ [][Next]_vars

-----------------------------------------------------------------------------
(* Vocabulary of the properties.  Every call of a behaviour is the most    *)
(* recent call of the state it leads to, so a property stated of the most  *)
(* recent call in every reachable state is a property of every call.       *)

\* The (bucket, id) keys of a two-level mapping.
KeysOf(m) == UNION {{<<c, i>> : i \in DOMAIN m[c]} : c \in DOMAIN m}

HasKey(m, c, i) == c \in DOMAIN m /\ i \in DOMAIN m[c]

\* Some bucket of g.nodes stores a node under this id.
HasNodeId(g, id) == \E c \in DOMAIN g.nodes : id \in DOMAIN g.nodes[c]

\* m2 is m1 with exactly the entry (c, i) added or overwritten.
OnlyEntryChanged(m1, m2, c, i) ==
    /\ DOMAIN m2 = (DOMAIN m1) \cup {c}
    /\ KeysOf(m2) = KeysOf(m1) \cup {<<c, i>>}
    /\ \A k \in KeysOf(m1) : k # <<c, i>> => m2[k[1]][k[2]] = m1[k[1]][k[2]]

Called == Len(calls) > 0
Last   == calls[Len(calls)]

\* The Graph before and after the j-th insertion of the most recent call.
StepPre(j)  == IF j = 1 THEN pre ELSE trace[j - 1]
StepPost(j) == trace[j]

\* Positions <<call, insertion>> of all insertions so far, in program order.
StepIdx == {p \in (1..Len(calls)) \X (1..3) : p[2] <= Len(calls[p[1]].steps)}
StepAt(p) == calls[p[1]].steps[p[2]]
Before(p, q) == p[1] < q[1] \/ (p[1] = q[1] /\ p[2] < q[2])

IsSET(c) == c.op = "source_edge_target"

\* The serialized form of a node record, field by field.
NodeJson(n) ==
    [variant |-> n.variant, variant_pk |-> n.variant_pk, id |-> n.id,
     name |-> n.name, props |-> n.props]

-----------------------------------------------------------------------------
\* C1: every edge stored in the Graph has its source and its target equal to
\* the id of a node stored in the same Graph, in every reachable state
\* (calls that returned a serialization error included).
C1_NoDanglingEdges ==
    \A k \in KeysOf(edges) :
        /\ HasNodeId(G, edges[k[1]][k[2]].source)
        /\ HasNodeId(G, edges[k[1]][k[2]].target)

\* C2: after a successful source_edge_target(nS, nT, ev, props) both node
\* ids are keys of their variant's bucket, edges[ev] holds an entry under
\* "{source_pk:?}|{ev}|{target_pk:?}" whose source and target are the two
\* node ids, and that is the only edge entry the call added or overwrote.
\* The scenario of the specification (Alice knows Bob) is spelled out.
C2_SourceEdgeTargetResult ==
    (Called /\ IsSET(Last) /\ Last.ok) =>
        LET nS == Last.args[1]
            nT == Last.args[2]
            ev == Last.args[3]
            key == Debug(nS.pk) \o "|" \o Display(ev) \o "|" \o Debug(nT.pk)
        IN  /\ HasKey(nodes, Display(nS.variant), node_id(nS))
            /\ HasKey(nodes, Display(nT.variant), node_id(nT))
            /\ HasKey(edges, Display(ev), key)
            /\ edges[Display(ev)][key].source = node_id(nS)
            /\ edges[Display(ev)][key].target = node_id(nT)
            /\ OnlyEntryChanged(pre.edges, edges, Display(ev), key)
            /\ (nS = alice /\ nT = bob /\ ev = "Knows") =>
                  /\ key = "1|knows|2"
                  /\ {"person|1", "person|2"} \subseteq DOMAIN nodes["person"]
                  /\ edges["knows"]["1|knows|2"].source = "person|1"
                  /\ edges["knows"]["1|knows|2"].target = "person|2"

\* A successful source_edge_target between two different nodes, and one from
\* a node to itself, have both happened.
C2_Witness ==
    /\ Len(calls) = 2
    /\ IsSET(calls[1]) /\ calls[1].ok
    /\ calls[1].args[1] = alice /\ calls[1].args[2] = bob
    /\ IsSET(calls[2]) /\ calls[2].ok
    /\ calls[2].args[1] = calls[2].args[2]
    /\ HasKey(edges, "knows", "1|knows|2")

\* C3: after add_node(N) succeeds, nodes[N.variant.to_string()][N.id] exists
\* and holds the serialized form of N, whatever the slot held before.
C3_AddNodeStores ==
    (Called /\ Last.op = "add_node" /\ Last.ok) =>
        LET N == Last.args[1]
        IN  /\ HasKey(nodes, Display(N.variant), N.id)
            /\ nodes[Display(N.variant)][N.id] = NodeJson(N)

\* add_node succeeded once into a bucket it had to create and then into a
\* slot that held a different value.
C3_Witness ==
    /\ Len(calls) = 2
    /\ calls[1].op = "add_node" /\ calls[1].ok
    /\ calls[2].op = "add_node" /\ calls[2].ok
    /\ HasKey(pre.nodes, Display(Last.args[1].variant), Last.args[1].id)
    /\ pre.nodes[Display(Last.args[1].variant)][Last.args[1].id]
         # NodeJson(Last.args[1])

\* C4: of two successful insertions of nodes with the same variant and the
\* same id, the second leaves exactly the second node's value in the slot
\* and does not change the number of entries of the bucket.
C4_LastWriteWins ==
    \A p \in StepIdx :
        \A j \in 1..(IF Called THEN Len(Last.steps) ELSE 0) :
            LET s1 == StepAt(p)
                s2 == Last.steps[j]
                b  == Display(s2.rec.variant)
            IN  (/\ Before(p, <<Len(calls), j>>)
                 /\ s1.kind = "node" /\ s2.kind = "node" /\ s1.ok /\ s2.ok
                 /\ s1.rec.variant = s2.rec.variant
                 /\ s1.rec.id = s2.rec.id) =>
                  /\ StepPost(j).nodes[b][s2.rec.id] = NodeJson(s2.rec)
                  /\ Cardinality(DOMAIN StepPost(j).nodes[b])
                       = Cardinality(DOMAIN StepPre(j).nodes[b])

\* Two nodes with the same variant and id but different fields were inserted
\* by two different operations.
C4_Witness ==
    /\ Len(calls) = 2
    /\ calls[1].op = "add_node" /\ calls[1].ok
    /\ calls[2].op = "add_node_from" /\ calls[2].ok
    /\ calls[1].steps[1].rec.variant = calls[2].steps[1].rec.variant
    /\ calls[1].steps[1].rec.id = calls[2].steps[1].rec.id
    /\ calls[1].steps[1].rec # calls[2].steps[1].rec

C6_FailureLeavesGraph ==
    Called =>
        /\ \A j \in 1..Len(Last.steps) :
             /\ Last.steps[j].ok = (Last.steps[j].rec.props # Unserializable)
             /\ ~Last.steps[j].ok =>
                   /\ StepPost(j) = StepPre(j)
                   /\ DOMAIN StepPost(j).nodes = DOMAIN StepPre(j).nodes
                   /\ DOMAIN StepPost(j).edges = DOMAIN StepPre(j).edges
        /\ (Last.op \in {"add_node", "add_node_from"} /\ ~Last.ok) => G = pre

\* add_node_from failed for a node whose slot already held another node,
\* which is still there.
C6_Witness ==
    /\ Len(calls) = 2
    /\ calls[1].op = "add_node" /\ calls[1].ok
    /\ calls[2].op = "add_node_from" /\ ~calls[2].ok
    /\ HasKey(nodes, Display(Last.args[1].variant), node_id(Last.args[1]))
    /\ nodes[Display(Last.args[1].variant)][node_id(Last.args[1])]
         = NodeJson(calls[1].args[1])

\* C7: two edges created by separate successful source_edge_target calls
\* that differ in their endpoint nodes or in their props receive distinct
\* ids, so both are in the Graph afterwards.
C7_EdgeIdsDistinct ==
    \A x \in 1..Len(calls), y \in 1..Len(calls) :
        (/\ x < y
         /\ IsSET(calls[x]) /\ calls[x].ok
         /\ IsSET(calls[y]) /\ calls[y].ok
         /\ calls[x].args # calls[y].args) =>
           /\ calls[x].steps[2].rec.id # calls[y].steps[2].rec.id
           /\ \E k \in KeysOf(edges) :
                edges[k[1]][k[2]].props = calls[x].args[4]
                  /\ edges[k[1]][k[2]].id = calls[x].steps[2].rec.id

\* C8: no node id is a key of two different variant buckets.
C8_NodeIdsUnique ==
    \A c1 \in DOMAIN nodes, c2 \in DOMAIN nodes :
        c1 # c2 => (DOMAIN nodes[c1]) \cap (DOMAIN nodes[c2]) = {}

C10_InsertOnly ==
    /\ (nodes = EmptyMap /\ edges = EmptyMap)
    /\ [][/\ DOMAIN nodes \subseteq DOMAIN nodes'
          /\ DOMAIN edges \subseteq DOMAIN edges'
          /\ KeysOf(nodes) \subseteq KeysOf(nodes')
          /\ KeysOf(edges) \subseteq KeysOf(edges')]_vars

\* A Graph that held an edge went through one more operation, one that
\* failed after its first insertion had added a node.
C10_Witness ==
    /\ Len(calls) = 2
    /\ calls[1].ok /\ KeysOf(pre.edges) # {}
    /\ ~calls[2].ok /\ Len(calls[2].steps) > 1
    /\ KeysOf(pre.nodes) # KeysOf(nodes)
====
